---- MODULE Spec2Model ----
(***************************************************************************)
(* memdebug.h: the allocation registry and the guarded malloc / realloc /  *)
(* free wrappers, in both variants kept in the repository:                 *)
(*   "hash"  - src/unnamed/part_000, a bucket array with overflow chains;  *)
(*   "array" - src/memdebug.h, a growable array of records.                *)
(* A behaviour is the life of one process built from one of the variants.  *)
(***************************************************************************)
EXTENDS Integers, Sequences, FiniteSets, TLC

(***************************************************************************)
(* Bounds of the model.                                                    *)
(***************************************************************************)
\* Calls of malloc/realloc/free/print_heap started during one behaviour.
MaxCalls == 3
\* size_t arithmetic is modular.  The modulus stands for 2^64 (2^32 on a
\* 32 bit build), scaled to the integers of the model checker.
SizeMod == 1073741824
\* Operations on the registry taken alone during one behaviour.
MaxRegistryOps == 6

\* The threads of the process.
Threads == {1, 2}
\* The null pointer.
NULL == 0
\* Addresses the real allocator hands out.  215296 lies in bucket 0 (the
\* bucket of NULL); 16 and 194064 share bucket 514.
Addrs == {16, 194064, 215296}
Ptrs == Addrs \cup {NULL}
\* The call sites of the application: the line and the size it asks for.
Sites == {[line |-> 13, n |-> 20], [line |-> 14, n |-> 25]}

(***************************************************************************)
(* Program constants.                                                      *)
(***************************************************************************)
MAP_BUF_SIZE == 100000
MEMPANIC_EXIT_STATUS == 10
OOM_EXIT_STATUS == 11
MEMDEBUG_START_NUM_ALLOCS == 5000
\* 4294967295 in the source, 2^32 - 1 against a 64 bit size_t; scaled with
\* SizeMod: above every capacity of the record array, below SizeMod - 1.
MEM_FAIL_TO_FIND == 32767
\* sizeof(void*)
SIZEOF_VOID_P == 8

(***************************************************************************)
(* The pointer hash.                                                       *)
(***************************************************************************)
RECURSIVE log_base_2(_)
log_base_2(num) == IF num = 1 THEN 0 ELSE 1 + log_base_2(num \div 2)

RECURSIVE Pow2(_)
Pow2(k) == IF k = 0 THEN 1 ELSE 2 * Pow2(k - 1)

\* a ^ b on non-negative integers
RECURSIVE BitXor(_, _)
BitXor(a, b) ==
    IF a = 0 THEN b
    ELSE IF b = 0 THEN a
    ELSE (((a % 2) + (b % 2)) % 2) + 2 * BitXor(a \div 2, b \div 2)

ptr_hash(val) ==
    LET logsize == log_base_2(1 + SIZEOF_VOID_P)
        shifted == val \div Pow2(logsize)
        other   == (val * Pow2(8 - logsize)) % SizeMod
        xed     == BitXor(shifted, other)
    IN  xed % MAP_BUF_SIZE

\* Addresses for the registry taken alone: four that share bucket 514, so
\* that a chain has a first, a middle and a last node, and the one of bucket 0.
RegAddrs == {16, 194064, 215312, 861200, 215296}

\* The buckets any pointer of the model can reach; every other bucket of
\* allocs[MAP_BUF_SIZE] stays as memallocs_init leaves it.
HashTable == [p \in Ptrs \cup RegAddrs |-> ptr_hash(p)]
Buckets == {HashTable[p] : p \in Ptrs}

RECURSIVE SortedSeq(_)
SortedSeq(S) ==
    IF S = {} THEN <<>>
    ELSE LET m == CHOOSE x \in S : \A y \in S : x <= y
         IN  <<m>> \o SortedSeq(S \ {m})

BucketOrder == SortedSeq(Buckets)

(***************************************************************************)
(* Records.  func and file are fixed strings of the call site and travel   *)
(* with line; the array variant has no func.                               *)
(***************************************************************************)
MemAlloc(ptr, size, line) == [ptr |-> ptr, size |-> size, line |-> line]
ZeroAlloc == MemAlloc(NULL, 0, 0)
\* A bucket: the inline record and the chain hanging off next.
MapMember(alloc, next) == [alloc |-> alloc, next |-> next]

(***************************************************************************)
(* The hash-table registry: map = [allocs, num_allocs,                     *)
(* memallocs_initialized, crashed].                                        *)
(***************************************************************************)
memallocs_init(map) ==
    IF map.memallocs_initialized THEN map
    ELSE [map EXCEPT
            !.allocs = [i \in Buckets |->
                          MapMember([map.allocs[i].alloc EXCEPT !.ptr = NULL], <<>>)],
            !.memallocs_initialized = TRUE]

\* alloc_add with num_allocs++ moved below the early return of the inline
\* insertion: a record put into a chain is counted, an inline one is not.
alloc_add_inline_uncounted(map0, alloc, node) ==
    LET map == memallocs_init(map0)
        n1  == (map.num_allocs + 1) % SizeMod
        b   == HashTable[alloc.ptr]
        bucket == map.allocs[b]
    IN  IF bucket.alloc.ptr = NULL
        THEN [map EXCEPT !.allocs[b].alloc = alloc]
        ELSE IF node
        THEN [map EXCEPT !.num_allocs = n1,
                         !.allocs[b].next = Append(bucket.next, alloc)]
        ELSE [map EXCEPT !.num_allocs = n1, !.crashed = TRUE]

\* node: what malloc(sizeof(MapMember)) returns when a chain node is needed,
\* TRUE for storage, FALSE for NULL (the write through it faults).
alloc_add(map0, alloc, node) ==
    LET map == memallocs_init(map0)
        n1  == (map.num_allocs + 1) % SizeMod
        b   == HashTable[alloc.ptr]
        bucket == map.allocs[b]
    IN  IF bucket.alloc.ptr = NULL
        THEN [map EXCEPT !.num_allocs = n1, !.allocs[b].alloc = alloc]
        ELSE IF node
        THEN [map EXCEPT !.num_allocs = n1,
                         !.allocs[b].next = Append(bucket.next, alloc)]
        ELSE [map EXCEPT !.num_allocs = n1, !.crashed = TRUE]

\* TRUE iff alloc_add reaches malloc(sizeof(MapMember)).
alloc_add_needs_node(map0, ptr) ==
    memallocs_init(map0).allocs[HashTable[ptr]].alloc.ptr # NULL

RemoveAt(s, i) == SubSeq(s, 1, i - 1) \o SubSeq(s, i + 1, Len(s))

\* alloc_remove without bucket->next = to_free->next: the chain node copied
\* into the inline slot stays linked.
alloc_remove_keeps_node(map0, ptr) ==
    LET map == memallocs_init(map0)
        n1  == (map.num_allocs + SizeMod - 1) % SizeMod
        b   == HashTable[ptr]
        bucket == map.allocs[b]
        hits == {i \in 1..Len(bucket.next) : bucket.next[i].ptr = ptr}
    IN  IF bucket.alloc.ptr = ptr
        THEN IF bucket.next # <<>>
             THEN [map |-> [map EXCEPT !.num_allocs = n1,
                                       !.allocs[b].alloc = Head(bucket.next)],
                   found |-> TRUE]
             ELSE [map |-> [map EXCEPT !.num_allocs = n1,
                                       !.allocs[b].alloc.ptr = NULL],
                   found |-> TRUE]
        ELSE IF hits # {}
        THEN LET i == CHOOSE x \in hits : \A y \in hits : x <= y
             IN  [map |-> [map EXCEPT !.num_allocs = n1,
                                      !.allocs[b].next = RemoveAt(bucket.next, i)],
                  found |-> TRUE]
        ELSE [map |-> map, found |-> FALSE]

\* alloc_remove that, unlinking a chain node, lets go of the nodes behind it
\* (previous->next = NULL).
alloc_remove_drops_tail(map0, ptr) ==
    LET map == memallocs_init(map0)
        n1  == (map.num_allocs + SizeMod - 1) % SizeMod
        b   == HashTable[ptr]
        bucket == map.allocs[b]
        hits == {i \in 1..Len(bucket.next) : bucket.next[i].ptr = ptr}
    IN  IF bucket.alloc.ptr = ptr
        THEN IF bucket.next # <<>>
             THEN [map |-> [map EXCEPT !.num_allocs = n1,
                                       !.allocs[b] = MapMember(Head(bucket.next),
                                                               Tail(bucket.next))],
                   found |-> TRUE]
             ELSE [map |-> [map EXCEPT !.num_allocs = n1,
                                       !.allocs[b].alloc.ptr = NULL],
                   found |-> TRUE]
        ELSE IF hits # {}
        THEN LET i == CHOOSE x \in hits : \A y \in hits : x <= y
             IN  [map |-> [map EXCEPT !.num_allocs = n1,
                                      !.allocs[b].next = SubSeq(bucket.next, 1, i - 1)],
                  found |-> TRUE]
        ELSE [map |-> map, found |-> FALSE]

\* alloc_remove that refills the inline slot from the last chain node
\* instead of the first.
alloc_remove_promotes_last(map0, ptr) ==
    LET map == memallocs_init(map0)
        n1  == (map.num_allocs + SizeMod - 1) % SizeMod
        b   == HashTable[ptr]
        bucket == map.allocs[b]
        hits == {i \in 1..Len(bucket.next) : bucket.next[i].ptr = ptr}
    IN  IF bucket.alloc.ptr = ptr
        THEN IF bucket.next # <<>>
             THEN [map |-> [map EXCEPT !.num_allocs = n1,
                                       !.allocs[b] =
                                           MapMember(bucket.next[Len(bucket.next)],
                                                     SubSeq(bucket.next, 1,
                                                            Len(bucket.next) - 1))],
                   found |-> TRUE]
             ELSE [map |-> [map EXCEPT !.num_allocs = n1,
                                       !.allocs[b].alloc.ptr = NULL],
                   found |-> TRUE]
        ELSE IF hits # {}
        THEN LET i == CHOOSE x \in hits : \A y \in hits : x <= y
             IN  [map |-> [map EXCEPT !.num_allocs = n1,
                                      !.allocs[b].next = RemoveAt(bucket.next, i)],
                  found |-> TRUE]
        ELSE [map |-> map, found |-> FALSE]

\* alloc_remove that clears a matching inline slot also when a chain hangs
\* off it.
alloc_remove_clears_inline(map0, ptr) ==
    LET map == memallocs_init(map0)
        n1  == (map.num_allocs + SizeMod - 1) % SizeMod
        b   == HashTable[ptr]
        bucket == map.allocs[b]
        hits == {i \in 1..Len(bucket.next) : bucket.next[i].ptr = ptr}
    IN  IF bucket.alloc.ptr = ptr
        THEN [map |-> [map EXCEPT !.num_allocs = n1,
                                  !.allocs[b].alloc.ptr = NULL],
              found |-> TRUE]
        ELSE IF hits # {}
        THEN LET i == CHOOSE x \in hits : \A y \in hits : x <= y
             IN  [map |-> [map EXCEPT !.num_allocs = n1,
                                      !.allocs[b].next = RemoveAt(bucket.next, i)],
                  found |-> TRUE]
        ELSE [map |-> map, found |-> FALSE]

\* The result: [map, found].
alloc_remove(map0, ptr) ==
    LET map == memallocs_init(map0)
        n1  == (map.num_allocs + SizeMod - 1) % SizeMod
        b   == HashTable[ptr]
        bucket == map.allocs[b]
        hits == {i \in 1..Len(bucket.next) : bucket.next[i].ptr = ptr}
    IN  IF bucket.alloc.ptr = ptr
        THEN IF bucket.next # <<>>
             THEN [map |-> [map EXCEPT !.num_allocs = n1,
                                       !.allocs[b] = MapMember(Head(bucket.next),
                                                               Tail(bucket.next))],
                   found |-> TRUE]
             ELSE [map |-> [map EXCEPT !.num_allocs = n1,
                                       !.allocs[b].alloc.ptr = NULL],
                   found |-> TRUE]
        ELSE IF hits # {}
        THEN LET i == CHOOSE x \in hits : \A y \in hits : x <= y
             IN  [map |-> [map EXCEPT !.num_allocs = n1,
                                      !.allocs[b].next = RemoveAt(bucket.next, i)],
                  found |-> TRUE]
        ELSE [map |-> map, found |-> FALSE]

\* The records print_heap lists from one bucket: the inline record and the
\* chain, as long as the record at hand has a non-null ptr.
RECURSIVE ChainPrefix(_)
ChainPrefix(s) ==
    IF s = <<>> \/ Head(s).ptr = NULL THEN <<>>
    ELSE <<Head(s)>> \o ChainPrefix(Tail(s))

BucketListing(bucket) ==
    IF bucket.alloc.ptr = NULL THEN <<>>
    ELSE <<bucket.alloc>> \o ChainPrefix(bucket.next)

RECURSIVE HeapListing(_, _)
HeapListing(allocs, order) ==
    IF order = <<>> THEN <<>>
    ELSE BucketListing(allocs[Head(order)]) \o HeapListing(allocs, Tail(order))

RECURSIVE SumSizes(_)
SumSizes(s) ==
    IF s = <<>> THEN 0 ELSE (Head(s).size + SumSizes(Tail(s))) % SizeMod

(***************************************************************************)
(* The state of the process.                                               *)
(***************************************************************************)
VARIABLES
    impl,                   \* the variant the process is built from
    allocs,                 \* hash: the buckets; array: the record storage
    num_allocs,             \* the live count
    memallocs_initialized,  \* hash only
    allocs_cap,             \* array only
    alloc_mutex,            \* the thread holding the lock, 0 when free
    heap,                   \* addresses the real allocator has handed out
    pc,                     \* where each thread stands
    loc,                    \* each thread's arguments and locals
    proc,                   \* "running", "exited" (exit), "crashed" (a fault)
    exit_status,            \* the argument of exit
    calls,                  \* calls started
    owned,                  \* addresses the application holds
    hist                    \* calls returned, and whether a call was misuse

vars == <<impl, allocs, num_allocs, memallocs_initialized, allocs_cap,
          alloc_mutex, heap, pc, loc, proc, exit_status, calls, owned, hist>>

registry == <<allocs, num_allocs, memallocs_initialized, allocs_cap>>

\* before: the live count and the live records when the thread took the lock.
Loc0 == [ptr |-> NULL, n |-> 0, line |-> 0, newptr |-> NULL, idx |-> 0,
         in_oom |-> FALSE, i |-> 0, listed |-> <<>>, total |-> 0, conc |-> FALSE,
         before |-> [count |-> 0, records |-> {}]]

Init ==
    /\ impl \in {"hash", "array"}
    /\ allocs = IF impl = "hash"
                THEN [i \in Buckets |-> MapMember(ZeroAlloc, <<>>)]
                ELSE <<>>
    /\ num_allocs = 0
    /\ memallocs_initialized = FALSE
    /\ allocs_cap = 0
    /\ alloc_mutex = 0
    /\ heap = {}
    /\ pc = [t \in Threads |-> "idle"]
    /\ loc = [t \in Threads |-> Loc0]
    /\ proc = "running"
    /\ exit_status = 0
    /\ calls = 0
    /\ owned = {}
    /\ hist = [mallocs |-> 0, reallocs |-> 0, frees |-> 0, misuse |-> FALSE]

(***************************************************************************)
(* The records the registry holds, as a set.                               *)
(***************************************************************************)
SeqToSet(s) == {s[i] : i \in 1..Len(s)}

\* hash: every record stored in a bucket, inline or in its chain
BucketRecords(bucket) ==
    (IF bucket.alloc.ptr = NULL THEN {} ELSE {bucket.alloc}) \cup SeqToSet(bucket.next)

\* array: the slots below num_allocs
LiveRecords ==
    IF impl = "hash"
    THEN UNION {BucketRecords(allocs[b]) : b \in Buckets}
    ELSE {allocs[i] : i \in 1..(IF num_allocs <= Len(allocs) THEN num_allocs
                                ELSE Len(allocs))}

Tracked(ptr) == \E r \in LiveRecords : r.ptr = ptr

(***************************************************************************)
(* Steps shared by every operation.                                        *)
(***************************************************************************)
\* The thread takes the lock and goes on to label; it notes what the
\* registry holds at this moment.
Locked(t, label) ==
    /\ pc' = [pc EXCEPT ![t] = label]
    /\ loc' = [loc EXCEPT ![t].before = [count |-> num_allocs, records |-> LiveRecords]]

Goto(t, label) == pc' = [pc EXCEPT ![t] = label]

\* The registry of the hash variant as one value, and back.
Map == [allocs |-> allocs, num_allocs |-> num_allocs,
        memallocs_initialized |-> memallocs_initialized, crashed |-> FALSE]

SetMap(map) ==
    /\ allocs' = map.allocs
    /\ num_allocs' = map.num_allocs
    /\ memallocs_initialized' = map.memallocs_initialized
    /\ proc' = IF map.crashed THEN "crashed" ELSE proc

\* A call starts: the application may call from an idle thread.
CanCall(t) ==
    /\ proc = "running"
    /\ pc[t] = "idle"
    /\ calls < MaxCalls

\* A call that starts while another thread dumps the heap is concurrent
\* with that dump.
StartCall(t, args) ==
    /\ calls' = calls + 1
    /\ loc' = [u \in Threads |->
                 IF u = t THEN args
                 ELSE IF pc[u] \in {"ph_lock", "ph_scan", "ph_loop", "ph_summary"}
                      THEN [loc[u] EXCEPT !.conc = TRUE]
                      ELSE loc[u]]

\* The application hands ptr to realloc or free: misuse unless it holds it.
GiveUp(ptr) ==
    /\ owned' = owned \ {ptr}
    /\ hist' = IF ptr \in owned THEN hist ELSE [hist EXCEPT !.misuse = TRUE]

\* MEMDEBUG_LOCK_MUTEX by a thread that does not hold the lock.
mutex_lock(t) ==
    /\ alloc_mutex = 0
    /\ alloc_mutex' = t

\* MEMDEBUG_UNLOCK_MUTEX
mutex_unlock(t) == alloc_mutex' = 0

\* An access outside an object, or a pointer handed to the real allocator
\* that it does not hold, is undefined: the process faults, or goes on.
Outcomes(undefined) == IF undefined THEN {"crash", "skip"} ELSE {"skip"}

\* What the real malloc may return: NULL, or an address not handed out.
MallocResults == {NULL} \cup (Addrs \ heap)

\* What the real realloc(ptr, n) may return: NULL (nothing changes), ptr
\* itself, or an address not handed out (ptr is then released).
ReallocResults(ptr) == {NULL} \cup (Addrs \ heap) \cup ({ptr} \cap heap)

HeapAfterRealloc(ptr, newptr) ==
    IF newptr = NULL THEN heap ELSE (heap \ {ptr}) \cup {newptr}

(***************************************************************************)
(* Steps.  A step is what a thread does between two points at which the    *)
(* others can tell the difference: a call of the real allocator together   *)
(* with the log line that follows it, the wait for the lock, a registry    *)
(* operation together with the unlock that follows it.                     *)
(***************************************************************************)

(***************************************************************************)
(* memdebug_malloc                                                         *)
(***************************************************************************)
\* void* ptr = malloc(n); if (!ptr) OOM(...); printf("malloc(%zu) -> %p ...")
memdebug_malloc_call(t) ==
    /\ CanCall(t)
    /\ \E site \in Sites, r \in MallocResults :
          /\ StartCall(t, [Loc0 EXCEPT !.n = site.n, !.line = site.line, !.newptr = r])
          /\ heap' = heap \cup ({r} \ {NULL})
          /\ Goto(t, IF r = NULL THEN "oom" ELSE "m_lock")
    /\ UNCHANGED <<impl, registry, alloc_mutex, proc, exit_status, owned, hist>>

\* MEMDEBUG_LOCK_MUTEX
memdebug_malloc_lock(t) ==
    /\ proc = "running"
    /\ pc[t] = "m_lock"
    /\ mutex_lock(t)
    /\ Locked(t, "m_add")
    /\ UNCHANGED <<impl, registry, heap, proc, exit_status, calls, owned, hist>>

\* alloc_add(newalloc); MEMDEBUG_UNLOCK_MUTEX; return ptr;
memdebug_malloc_add(t) ==
    /\ proc = "running"
    /\ impl = "hash"
    /\ pc[t] = "m_add"
    /\ \E node \in IF alloc_add_needs_node(Map, loc[t].newptr)
                   THEN BOOLEAN ELSE {TRUE} :
          SetMap(alloc_add(Map, MemAlloc(loc[t].newptr, loc[t].n, loc[t].line), node))
    /\ mutex_unlock(t)
    /\ Goto(t, "idle")
    /\ owned' = owned \cup {loc[t].newptr}
    /\ hist' = [hist EXCEPT !.mallocs = @ + 1]
    /\ loc' = [loc EXCEPT ![t] = Loc0]
    /\ UNCHANGED <<impl, allocs_cap, heap, exit_status, calls>>

(***************************************************************************)
(* memdebug_realloc                                                        *)
(***************************************************************************)
memdebug_realloc_call(t) ==
    /\ CanCall(t)
    /\ \E ptr \in Ptrs, site \in Sites :
          /\ StartCall(t, [Loc0 EXCEPT !.ptr = ptr, !.n = site.n, !.line = site.line])
          /\ GiveUp(ptr)
    /\ Goto(t, "r_lock")
    /\ UNCHANGED <<impl, registry, alloc_mutex, heap, proc, exit_status>>

\* MEMDEBUG_LOCK_MUTEX
memdebug_realloc_lock(t) ==
    /\ proc = "running"
    /\ pc[t] = "r_lock"
    /\ mutex_lock(t)
    /\ Locked(t, IF impl = "hash" THEN "r_remove" ELSE "r_find")
    /\ UNCHANGED <<impl, registry, heap, proc, exit_status, calls, owned, hist>>

\* memdebug_realloc that looks the pointer up and leaves its record in place.
memdebug_realloc_lookup_only(t) ==
    /\ proc = "running"
    /\ impl = "hash"
    /\ pc[t] = "r_remove"
    /\ SetMap(memallocs_init(Map))
    /\ Goto(t, IF loc[t].ptr # NULL /\ ~alloc_remove(Map, loc[t].ptr).found
               THEN "mempanic" ELSE "r_real")
    /\ UNCHANGED <<impl, allocs_cap, alloc_mutex, heap, loc, exit_status,
                   calls, owned, hist>>

\* bool removed = alloc_remove(ptr);
\* if (ptr != NULL && !removed) mempanic(...);
memdebug_realloc_remove(t) ==
    /\ proc = "running"
    /\ impl = "hash"
    /\ pc[t] = "r_remove"
    /\ LET r == alloc_remove(Map, loc[t].ptr)
       IN  /\ SetMap(r.map)
           /\ Goto(t, IF loc[t].ptr # NULL /\ ~r.found THEN "mempanic" ELSE "r_real")
    /\ UNCHANGED <<impl, allocs_cap, alloc_mutex, heap, loc, exit_status,
                   calls, owned, hist>>

\* void* newptr = realloc(ptr, n); if (!newptr) OOM(...);
\* printf("realloc(%p, %zu) -> %p ...").  A pointer the real allocator does
\* not hold is undefined.
memdebug_realloc_real(t) ==
    /\ proc = "running"
    /\ pc[t] = "r_real"
    /\ \E r \in ReallocResults(loc[t].ptr),
          ub \in Outcomes(loc[t].ptr # NULL /\ loc[t].ptr \notin heap) :
          /\ loc' = [loc EXCEPT ![t].newptr = r]
          /\ heap' = HeapAfterRealloc(loc[t].ptr, r)
          /\ proc' = IF ub = "crash" THEN "crashed" ELSE proc
          /\ Goto(t, IF r = NULL THEN "oom"
                     ELSE IF impl = "hash" THEN "r_add" ELSE "r_update")
    /\ UNCHANGED <<impl, registry, alloc_mutex, exit_status, calls, owned, hist>>

\* alloc_add(newalloc); MEMDEBUG_UNLOCK_MUTEX; return newptr;
memdebug_realloc_add(t) ==
    /\ proc = "running"
    /\ impl = "hash"
    /\ pc[t] = "r_add"
    /\ \E node \in IF alloc_add_needs_node(Map, loc[t].newptr)
                   THEN BOOLEAN ELSE {TRUE} :
          SetMap(alloc_add(Map, MemAlloc(loc[t].newptr, loc[t].n, loc[t].line), node))
    /\ mutex_unlock(t)
    /\ Goto(t, "idle")
    /\ owned' = owned \cup {loc[t].newptr}
    /\ hist' = [hist EXCEPT !.reallocs = @ + 1]
    /\ loc' = [loc EXCEPT ![t] = Loc0]
    /\ UNCHANGED <<impl, allocs_cap, heap, exit_status, calls>>

(***************************************************************************)
(* memdebug_free                                                           *)
(***************************************************************************)
memdebug_free_call(t) ==
    /\ CanCall(t)
    /\ \E ptr \in Ptrs :
          /\ StartCall(t, [Loc0 EXCEPT !.ptr = ptr])
          /\ GiveUp(ptr)
    /\ Goto(t, "f_lock")
    /\ UNCHANGED <<impl, registry, alloc_mutex, heap, proc, exit_status>>

\* MEMDEBUG_LOCK_MUTEX
memdebug_free_lock(t) ==
    /\ proc = "running"
    /\ pc[t] = "f_lock"
    /\ mutex_lock(t)
    /\ Locked(t, IF impl = "hash" THEN "f_remove" ELSE "f_find")
    /\ UNCHANGED <<impl, registry, heap, proc, exit_status, calls, owned, hist>>

\* memdebug_free that looks the pointer up and leaves its record in place.
memdebug_free_lookup_only(t) ==
    /\ proc = "running"
    /\ impl = "hash"
    /\ pc[t] = "f_remove"
    /\ LET panic == loc[t].ptr # NULL /\ ~alloc_remove(Map, loc[t].ptr).found
       IN  /\ SetMap(memallocs_init(Map))
           /\ alloc_mutex' = IF panic THEN alloc_mutex ELSE 0
           /\ Goto(t, IF panic THEN "mempanic" ELSE "f_real")
    /\ UNCHANGED <<impl, allocs_cap, heap, loc, exit_status, calls, owned, hist>>

\* memdebug_free without the check of removed: an unknown pointer goes on
\* to the real free.
memdebug_free_remove_unchecked(t) ==
    /\ proc = "running"
    /\ impl = "hash"
    /\ pc[t] = "f_remove"
    /\ SetMap(alloc_remove(Map, loc[t].ptr).map)
    /\ alloc_mutex' = 0
    /\ Goto(t, "f_real")
    /\ UNCHANGED <<impl, allocs_cap, heap, loc, exit_status, calls, owned, hist>>

\* bool removed = alloc_remove(ptr);
\* if (ptr != NULL && !removed) mempanic(...);
\* MEMDEBUG_UNLOCK_MUTEX
memdebug_free_remove(t) ==
    /\ proc = "running"
    /\ impl = "hash"
    /\ pc[t] = "f_remove"
    /\ LET r == alloc_remove(Map, loc[t].ptr)
           panic == loc[t].ptr # NULL /\ ~r.found
       IN  /\ SetMap(r.map)
           /\ alloc_mutex' = IF panic THEN alloc_mutex ELSE 0
           /\ Goto(t, IF panic THEN "mempanic" ELSE "f_real")
    /\ UNCHANGED <<impl, allocs_cap, heap, loc, exit_status, calls, owned, hist>>

\* free(ptr); printf("free(%p) ..."); the call returns
memdebug_free_real(t) ==
    /\ proc = "running"
    /\ impl = "hash"
    /\ pc[t] = "f_real"
    /\ heap' = heap \ {loc[t].ptr}
    /\ Goto(t, "idle")
    /\ hist' = [hist EXCEPT !.frees = @ + 1]
    /\ loc' = [loc EXCEPT ![t] = Loc0]
    /\ UNCHANGED <<impl, registry, alloc_mutex, proc, exit_status, calls, owned>>

(***************************************************************************)
(* print_heap                                                              *)
(***************************************************************************)
print_heap_call(t) ==
    /\ CanCall(t)
    /\ StartCall(t, [Loc0 EXCEPT !.conc = \E u \in Threads \ {t} : pc[u] # "idle"])
    /\ Goto(t, IF impl = "hash" THEN "ph_lock" ELSE "ph_loop")
    /\ UNCHANGED <<impl, registry, alloc_mutex, heap, proc, exit_status, owned, hist>>

\* MEMDEBUG_LOCK_MUTEX
print_heap_lock(t) ==
    /\ proc = "running"
    /\ pc[t] = "ph_lock"
    /\ mutex_lock(t)
    /\ Goto(t, "ph_scan")
    /\ UNCHANGED <<impl, registry, heap, loc, proc, exit_status, calls, owned, hist>>

\* MEMDEBUG_LOCK_MUTEX by the thread that holds the lock (OOM called from
\* memdebug_realloc).  The mutex is a default pthread mutex or an SRW lock:
\* the thread blocks for good, ...
print_heap_relock_block(t) ==
    /\ proc = "running"
    /\ pc[t] = "ph_lock"
    /\ alloc_mutex = t
    /\ Goto(t, "blocked")
    /\ UNCHANGED <<impl, registry, alloc_mutex, heap, loc, proc, exit_status,
                   calls, owned, hist>>

\* ... or, relocking being undefined for a default mutex, the call comes
\* back at once (its result is not looked at).
print_heap_relock_fail(t) ==
    /\ proc = "running"
    /\ pc[t] = "ph_lock"
    /\ alloc_mutex = t
    /\ Goto(t, "ph_scan")
    /\ UNCHANGED <<impl, registry, alloc_mutex, heap, loc, proc, exit_status,
                   calls, owned, hist>>

\* the loop over the buckets; MEMDEBUG_UNLOCK_MUTEX
print_heap_scan(t) ==
    /\ proc = "running"
    /\ pc[t] = "ph_scan"
    /\ LET map == memallocs_init(Map)
           listing == HeapListing(map.allocs, BucketOrder)
       IN  /\ SetMap(map)
           /\ loc' = [loc EXCEPT ![t].listed = listing,
                                 ![t].total = SumSizes(listing)]
    /\ mutex_unlock(t)
    /\ Goto(t, "ph_summary")
    /\ UNCHANGED <<impl, allocs_cap, heap, exit_status, calls, owned, hist>>

\* printf("Total Heap size ...: %zu, number of items: %zu", total_allocated,
\* num_allocs); print_heap returns, to OOM or to the application
print_heap_summary(t) ==
    /\ proc = "running"
    /\ pc[t] = "ph_summary"
    /\ loc' = [loc EXCEPT ![t] = [Loc0 EXCEPT !.in_oom = loc[t].in_oom]]
    /\ Goto(t, IF loc[t].in_oom THEN "oom_exit" ELSE "idle")
    /\ UNCHANGED <<impl, registry, alloc_mutex, heap, proc, exit_status,
                   calls, owned, hist>>

(***************************************************************************)
(* mempanic and OOM                                                        *)
(***************************************************************************)
\* printf("MEMORY PANIC: ..."); exit(MEMPANIC_EXIT_STATUS);
mempanic(t) ==
    /\ proc = "running"
    /\ pc[t] = "mempanic"
    /\ proc' = "exited"
    /\ exit_status' = MEMPANIC_EXIT_STATUS
    /\ Goto(t, "exit")
    /\ UNCHANGED <<impl, registry, alloc_mutex, heap, loc, calls, owned, hist>>

\* printf("Out of memory ... Dumping heap:"); print_heap();
OOM_print(t) ==
    /\ proc = "running"
    /\ pc[t] = "oom"
    /\ loc' = [loc EXCEPT ![t].in_oom = TRUE]
    /\ Goto(t, IF impl = "hash" THEN "ph_lock" ELSE "ph_loop")
    /\ UNCHANGED <<impl, registry, alloc_mutex, heap, proc, exit_status,
                   calls, owned, hist>>

\* exit(OOM_EXIT_STATUS);
OOM_exit(t) ==
    /\ proc = "running"
    /\ pc[t] = "oom_exit"
    /\ proc' = "exited"
    /\ exit_status' = OOM_EXIT_STATUS
    /\ Goto(t, "exit")
    /\ UNCHANGED <<impl, registry, alloc_mutex, heap, loc, calls, owned, hist>>

(***************************************************************************)
(* The array registry (src/memdebug.h).  allocs holds the slots written so *)
(* far, slot i of the source at position i + 1; slots at num_allocs and    *)
(* above keep what was last written there.  An access outside the storage  *)
(* is undefined: the process faults ("crash") or the access lands outside  *)
(* the registry and shows no effect ("skip").                              *)
(***************************************************************************)
Min(a, b) == IF a <= b THEN a ELSE b

\* The result: [idx, crashed].  A scan that finds nothing below num_allocs
\* and is not stopped by the end of the written storage runs on through
\* memory of which num_allocs says nothing, until it faults.
alloc_find_index(store, num, ptr) ==
    LET hits == {i \in 0..(Min(num, Len(store)) - 1) : store[i + 1].ptr = ptr}
    IN  IF hits # {}
        THEN [idx |-> CHOOSE x \in hits : \A y \in hits : x <= y, crashed |-> FALSE]
        ELSE [idx |-> MEM_FAIL_TO_FIND, crashed |-> num > Len(store)]

\* allocs[index] = value, inside the storage
StoreAt(store, index, value) ==
    IF index < Len(store) THEN [store EXCEPT ![index + 1] = value]
    ELSE Append(store, value)

\* TRUE iff alloc_push asks the real allocator for storage.
alloc_push_needs_storage(num, cap) == num >= cap

\* storage: what the real malloc / realloc of the record array returns, TRUE
\* for storage, FALSE for NULL.  ub: the outcome of an access outside it.
\* The result: [allocs, num_allocs, allocs_cap, status].
alloc_push(store, num, cap, alloc, storage, ub) ==
    LET first   == num >= cap /\ cap = 0
        grow    == num >= cap /\ cap # 0
        new_cap == IF first THEN MEMDEBUG_START_NUM_ALLOCS
                   ELSE IF grow THEN (cap * 14) \div 10
                   ELSE cap
        n1      == (num + 1) % SizeMod
    IN  IF grow /\ ~storage
        THEN [allocs |-> store, num_allocs |-> num, allocs_cap |-> cap,
              status |-> "oom"]
        ELSE IF first /\ ~storage
        THEN [allocs |-> store, num_allocs |-> num, allocs_cap |-> new_cap,
              status |-> "crash"]
        ELSE IF num < new_cap
        THEN [allocs |-> StoreAt(store, num, alloc), num_allocs |-> n1,
              allocs_cap |-> new_cap, status |-> "ok"]
        ELSE [allocs |-> store,
              num_allocs |-> IF ub = "crash" THEN num ELSE n1,
              allocs_cap |-> new_cap,
              status |-> IF ub = "crash" THEN "crash" ELSE "ok"]

\* TRUE iff allocs[num_allocs] = alloc lies outside the storage.
alloc_push_out_of_bounds(num, cap) ==
    num >= (IF cap = 0 THEN MEMDEBUG_START_NUM_ALLOCS
            ELSE IF num >= cap THEN (cap * 14) \div 10 ELSE cap)

\* for (; index < num_allocs; index++) allocs[index] = allocs[index + 1];
RECURSIVE ShiftLeft(_, _, _)
ShiftLeft(store, index, num) ==
    IF index >= num THEN store
    ELSE ShiftLeft([store EXCEPT ![index + 1] = store[index + 2]], index + 1, num)

\* TRUE iff the shifting loop of alloc_remove(index) leaves the storage.
alloc_remove_out_of_bounds(store, num, index) ==
    LET n1 == (num + SizeMod - 1) % SizeMod
    IN  index < n1 /\ n1 >= Len(store)

\* alloc_remove(size_t index) of the array variant.
\* The result: [allocs, num_allocs, status].
alloc_remove_at(store, num, index, ub) ==
    LET n1 == (num + SizeMod - 1) % SizeMod
    IN  IF alloc_remove_out_of_bounds(store, num, index)
        THEN [allocs |-> store, num_allocs |-> n1,
              status |-> IF ub = "crash" THEN "crash" ELSE "ok"]
        ELSE [allocs |-> ShiftLeft(store, index, n1), num_allocs |-> n1,
              status |-> "ok"]

\* alloc_update(index, new_info).  The result: [allocs, status].
alloc_update(store, index, new_info, ub) ==
    IF index < Len(store)
    THEN [allocs |-> [store EXCEPT ![index + 1] = new_info], status |-> "ok"]
    ELSE [allocs |-> store, status |-> IF ub = "crash" THEN "crash" ELSE "ok"]

(***************************************************************************)
(* The steps of the array variant that differ from the hash variant.       *)
(***************************************************************************)
\* alloc_push(newalloc); MEMDEBUG_UNLOCK_MUTEX; return ptr;
arr_malloc_push(t) ==
    /\ proc = "running"
    /\ impl = "array"
    /\ pc[t] = "m_add"
    /\ \E storage \in IF alloc_push_needs_storage(num_allocs, allocs_cap)
                      THEN BOOLEAN ELSE {TRUE},
          ub \in Outcomes(alloc_push_out_of_bounds(num_allocs, allocs_cap)) :
          LET r == alloc_push(allocs, num_allocs, allocs_cap,
                              MemAlloc(loc[t].newptr, loc[t].n, loc[t].line),
                              storage, ub)
          IN  /\ allocs' = r.allocs
              /\ num_allocs' = r.num_allocs
              /\ allocs_cap' = r.allocs_cap
              /\ proc' = IF r.status = "crash" THEN "crashed" ELSE proc
              /\ IF r.status = "oom"
                 THEN /\ Goto(t, "oom")
                      /\ UNCHANGED <<alloc_mutex, owned, hist, loc>>
                 ELSE /\ Goto(t, "idle")
                      /\ mutex_unlock(t)
                      /\ owned' = owned \cup {loc[t].newptr}
                      /\ hist' = [hist EXCEPT !.mallocs = @ + 1]
                      /\ loc' = [loc EXCEPT ![t] = Loc0]
    /\ UNCHANGED <<impl, memallocs_initialized, heap, exit_status, calls>>

\* size_t alloc_index = alloc_find_index(ptr);
\* if (ptr != NULL && alloc_index == MEM_FAIL_TO_FIND) mempanic(...);
arr_realloc_find(t) ==
    /\ proc = "running"
    /\ impl = "array"
    /\ pc[t] = "r_find"
    /\ LET r == alloc_find_index(allocs, num_allocs, loc[t].ptr)
       IN  /\ loc' = [loc EXCEPT ![t].idx = r.idx]
           /\ proc' = IF r.crashed THEN "crashed" ELSE proc
           /\ Goto(t, IF loc[t].ptr # NULL /\ r.idx = MEM_FAIL_TO_FIND
                      THEN "mempanic" ELSE "r_real")
    /\ UNCHANGED <<impl, registry, alloc_mutex, heap, exit_status, calls, owned, hist>>

\* alloc_update(alloc_index, newalloc); MEMDEBUG_UNLOCK_MUTEX; return newptr;
arr_realloc_update(t) ==
    /\ proc = "running"
    /\ impl = "array"
    /\ pc[t] = "r_update"
    /\ \E ub \in Outcomes(loc[t].idx >= Len(allocs)) :
          LET r == alloc_update(allocs, loc[t].idx,
                                MemAlloc(loc[t].newptr, loc[t].n, loc[t].line), ub)
          IN  /\ allocs' = r.allocs
              /\ proc' = IF r.status = "crash" THEN "crashed" ELSE proc
    /\ mutex_unlock(t)
    /\ Goto(t, "idle")
    /\ owned' = owned \cup {loc[t].newptr}
    /\ hist' = [hist EXCEPT !.reallocs = @ + 1]
    /\ loc' = [loc EXCEPT ![t] = Loc0]
    /\ UNCHANGED <<impl, num_allocs, memallocs_initialized, allocs_cap,
                   heap, exit_status, calls>>

\* memdebug_free that gives the lock back after the lookup, before the real
\* free and alloc_remove.
arr_free_find_unlocks(t) ==
    /\ proc = "running"
    /\ impl = "array"
    /\ pc[t] = "f_find"
    /\ LET r == alloc_find_index(allocs, num_allocs, loc[t].ptr)
           panic == loc[t].ptr # NULL /\ r.idx = MEM_FAIL_TO_FIND
       IN  /\ loc' = [loc EXCEPT ![t].idx = r.idx]
           /\ proc' = IF r.crashed THEN "crashed" ELSE proc
           /\ alloc_mutex' = IF panic THEN alloc_mutex ELSE 0
           /\ Goto(t, IF panic THEN "mempanic" ELSE "fa_real")
    /\ UNCHANGED <<impl, registry, heap, exit_status, calls, owned, hist>>

\* size_t alloc_index = alloc_find_index(ptr);
\* if (ptr != NULL && alloc_index == MEM_FAIL_TO_FIND) mempanic(...);
arr_free_find(t) ==
    /\ proc = "running"
    /\ impl = "array"
    /\ pc[t] = "f_find"
    /\ LET r == alloc_find_index(allocs, num_allocs, loc[t].ptr)
       IN  /\ loc' = [loc EXCEPT ![t].idx = r.idx]
           /\ proc' = IF r.crashed THEN "crashed" ELSE proc
           /\ Goto(t, IF loc[t].ptr # NULL /\ r.idx = MEM_FAIL_TO_FIND
                      THEN "mempanic" ELSE "fa_real")
    /\ UNCHANGED <<impl, registry, alloc_mutex, heap, exit_status, calls, owned, hist>>

\* free(ptr); printf("free(%p) ...").  A pointer the real allocator does not
\* hold is undefined.
arr_free_real(t) ==
    /\ proc = "running"
    /\ impl = "array"
    /\ pc[t] = "fa_real"
    /\ \E ub \in Outcomes(loc[t].ptr # NULL /\ loc[t].ptr \notin heap) :
          proc' = IF ub = "crash" THEN "crashed" ELSE proc
    /\ heap' = heap \ {loc[t].ptr}
    /\ Goto(t, "fa_remove")
    /\ UNCHANGED <<impl, registry, alloc_mutex, loc, exit_status, calls, owned, hist>>

\* alloc_remove(alloc_index); MEMDEBUG_UNLOCK_MUTEX; the call returns
arr_free_remove(t) ==
    /\ proc = "running"
    /\ impl = "array"
    /\ pc[t] = "fa_remove"
    /\ \E ub \in Outcomes(alloc_remove_out_of_bounds(allocs, num_allocs, loc[t].idx)) :
          LET r == alloc_remove_at(allocs, num_allocs, loc[t].idx, ub)
          IN  /\ allocs' = r.allocs
              /\ num_allocs' = r.num_allocs
              /\ proc' = IF r.status = "crash" THEN "crashed" ELSE proc
    /\ mutex_unlock(t)
    /\ Goto(t, "idle")
    /\ hist' = [hist EXCEPT !.frees = @ + 1]
    /\ loc' = [loc EXCEPT ![t] = Loc0]
    /\ UNCHANGED <<impl, memallocs_initialized, allocs_cap, heap,
                   exit_status, calls, owned>>

\* one turn of for (i = 0; i < num_allocs; i++) { printf(allocs[i]); ... },
\* without the lock; the loop ends into the summary line
arr_print_heap_loop(t) ==
    /\ proc = "running"
    /\ impl = "array"
    /\ pc[t] = "ph_loop"
    /\ IF loc[t].i < num_allocs
       THEN IF loc[t].i < Len(allocs)
            THEN /\ loc' = [loc EXCEPT
                      ![t].listed = Append(@, allocs[loc[t].i + 1]),
                      ![t].total = (@ + allocs[loc[t].i + 1].size) % SizeMod,
                      ![t].i = @ + 1]
                 /\ UNCHANGED <<pc, proc>>
            ELSE /\ proc' = "crashed"
                 /\ UNCHANGED <<pc, loc>>
       ELSE /\ Goto(t, "ph_summary")
            /\ UNCHANGED <<loc, proc>>
    /\ UNCHANGED <<impl, registry, alloc_mutex, heap, exit_status, calls, owned, hist>>

(***************************************************************************)
(* The process.                                                            *)
(***************************************************************************)
\* A call by the application.
Call(t) ==
    \/ memdebug_malloc_call(t)
    \/ memdebug_realloc_call(t)
    \/ memdebug_free_call(t)
    \/ print_heap_call(t)

\* A step of a thread inside a call.
Run(t) ==
        \/ memdebug_malloc_lock(t)
        \/ memdebug_malloc_add(t)
        \/ memdebug_realloc_lock(t)
        \/ memdebug_realloc_remove(t)
        \/ memdebug_realloc_real(t)
        \/ memdebug_realloc_add(t)
        \/ memdebug_free_lock(t)
        \/ memdebug_free_remove(t)
        \/ memdebug_free_real(t)
        \/ print_heap_lock(t)
        \/ print_heap_relock_block(t)
        \/ print_heap_relock_fail(t)
        \/ print_heap_scan(t)
        \/ print_heap_summary(t)
        \/ mempanic(t)
        \/ OOM_print(t)
        \/ OOM_exit(t)
        \/ arr_malloc_push(t)
        \/ arr_realloc_find(t)
        \/ arr_realloc_update(t)
        \/ arr_free_find(t)
        \/ arr_free_real(t)
        \/ arr_free_remove(t)
        \/ arr_print_heap_loop(t)

Next == \E t \in Threads : Call(t) \/ Run(t)

Spec == Init /\ [][Next]_vars

\* The scheduler lets every thread that can take a step inside a call take
\* one; the application need not call.
FairSpec == Spec /\ \A t \in Threads : WF_vars(Run(t))

(***************************************************************************)
(* The registry taken alone: alloc_add and alloc_remove called one after   *)
(* the other by one thread, with the real allocator drawing from RegAddrs. *)
(* pc[1] tells the last operation, loc[1] its pointer and what the         *)
(* registry held before it.                                                *)
(***************************************************************************)
RegistryInit ==
    /\ Init
    /\ impl = "hash"

\* alloc_add(newalloc) for an address a the real malloc returned
RegistryAdd ==
    /\ proc = "running"
    /\ calls < MaxRegistryOps
    /\ calls' = calls + 1
    /\ \E a \in RegAddrs \ heap, site \in Sites :
       \E node \in IF alloc_add_needs_node(Map, a) THEN BOOLEAN ELSE {TRUE} :
          /\ SetMap(alloc_add(Map, MemAlloc(a, site.n, site.line), node))
          /\ heap' = heap \cup {a}
          /\ loc' = [loc EXCEPT ![1] =
                       [Loc0 EXCEPT !.newptr = a, !.n = site.n, !.line = site.line,
                                    !.listed = BucketListing(memallocs_init(Map).allocs[HashTable[a]]),
                                    !.before = [count |-> num_allocs,
                                                records |-> LiveRecords]]]
    /\ pc' = [pc EXCEPT ![1] = "added"]
    /\ UNCHANGED <<impl, allocs_cap, alloc_mutex, exit_status, owned, hist>>

\* alloc_remove(ptr), and the real free of a pointer that had a record
RegistryRemove ==
    /\ proc = "running"
    /\ calls < MaxRegistryOps
    /\ calls' = calls + 1
    /\ \E ptr \in RegAddrs \cup {NULL} :
          LET r == alloc_remove(Map, ptr)
          IN  /\ SetMap(r.map)
              /\ heap' = IF r.found THEN heap \ {ptr} ELSE heap
              /\ loc' = [loc EXCEPT ![1] =
                           [Loc0 EXCEPT !.ptr = ptr,
                                        !.listed = BucketListing(memallocs_init(Map).allocs[HashTable[ptr]]),
                                        !.before = [count |-> num_allocs,
                                                    records |-> LiveRecords]]]
              /\ pc' = [pc EXCEPT ![1] = IF r.found THEN "removed" ELSE "absent"]
    /\ UNCHANGED <<impl, allocs_cap, alloc_mutex, exit_status, owned, hist>>

RegistryNext == RegistryAdd \/ RegistryRemove

RegistrySpec == RegistryInit /\ [][RegistryNext]_vars

(***************************************************************************)
(* Properties.                                                             *)
(***************************************************************************)
\* No call is under way.
Quiescent == proc = "running" /\ \A t \in Threads : pc[t] = "idle"

\* C1: hash variant.  When every call has returned and no realloc or free
\* was given a pointer the application did not hold, num_allocs is the
\* number of memdebug_malloc calls that returned minus the number of
\* memdebug_free calls that returned; memdebug_realloc counts for nothing.
C1_LiveCountIsMallocsMinusFrees ==
    (impl = "hash" /\ Quiescent /\ ~hist.misuse)
        => num_allocs = hist.mallocs - hist.frees

\* malloc, realloc, free have all returned (the README's first three calls)
C1_Witness ==
    /\ impl = "hash"
    /\ Quiescent
    /\ ~hist.misuse
    /\ hist.mallocs = 1 /\ hist.reallocs = 1 /\ hist.frees = 1
    /\ num_allocs = 0

\* C2: memdebug_free(NULL) is a no-op in both variants: the steps of the
\* call that work on the registry leave the live records and num_allocs as
\* they are, and end neither in mempanic nor in a fault.
C2_FreeNullIsNoOp ==
    [][\A t \in Threads :
          (/\ loc[t].ptr = NULL
           /\ pc[t] \in {"f_remove", "f_find", "fa_real", "fa_remove"}
           /\ pc'[t] # pc[t])
          => (/\ num_allocs' = num_allocs
              /\ LiveRecords' = LiveRecords
              /\ proc' = "running"
              /\ pc'[t] # "mempanic")]_vars

\* C3: hash variant.  memdebug_free or memdebug_realloc of a non-null pointer
\* without a record goes to mempanic, leaving buckets, num_allocs and the
\* real allocator alone; from mempanic the thread only goes into
\* exit(MEMPANIC_EXIT_STATUS), again without touching them.
C3_UntrackedPointerPanics ==
    [][\A t \in Threads : impl = "hash" =>
          /\ (/\ pc[t] \in {"f_remove", "r_remove"}
              /\ pc'[t] # pc[t]
              /\ loc[t].ptr # NULL
              /\ ~Tracked(loc[t].ptr))
             => (/\ pc'[t] = "mempanic"
                 /\ allocs' = allocs /\ num_allocs' = num_allocs
                 /\ heap' = heap)
          /\ (pc[t] = "mempanic" /\ pc'[t] # "mempanic")
             => (/\ pc'[t] = "exit"
                 /\ proc' = "exited"
                 /\ exit_status' = MEMPANIC_EXIT_STATUS
                 /\ allocs' = allocs /\ num_allocs' = num_allocs
                 /\ heap' = heap)]_vars

\* a free or realloc of an unknown non-null pointer has ended the process
C3_Witness ==
    \E t \in Threads :
        /\ impl = "hash"
        /\ pc[t] = "exit"
        /\ loc[t].ptr # NULL
        /\ ~loc[t].in_oom
        /\ proc = "exited"
        /\ exit_status = MEMPANIC_EXIT_STATUS

\* C4: hash variant.  Once the real allocator has returned NULL in
\* memdebug_malloc or memdebug_realloc, the thread goes through OOM: the
\* message, the heap dump of print_heap, exit(OOM_EXIT_STATUS).  It does not
\* return, does not get stuck before the dump, changes no record, and the
\* exit status is not that of mempanic.
C4_OomDumpsAndExits ==
    [][\A t \in Threads : (impl = "hash" /\ (pc[t] = "oom" \/ loc[t].in_oom)) =>
          /\ pc'[t] \in {"oom", "ph_lock", "ph_scan", "ph_summary", "oom_exit", "exit"}
          /\ pc'[t] # pc[t] =>
                (/\ LiveRecords' = LiveRecords
                 /\ num_allocs' = num_allocs)
          /\ pc'[t] = "exit" =>
                (/\ pc[t] = "oom_exit"
                 /\ proc' = "exited"
                 /\ exit_status' = OOM_EXIT_STATUS
                 /\ exit_status' # MEMPANIC_EXIT_STATUS)]_vars

\* C5: under fair scheduling every call that has started returns or the
\* process ends.
C5_EveryCallEnds ==
    \A t \in Threads :
        (pc[t] # "idle") ~> (pc[t] = "idle" \/ proc # "running")

\* The step with which memdebug_realloc returns.
ReallocReturns(t) ==
    /\ pc[t] \in {"r_add", "r_update"}
    /\ pc'[t] = "idle"
    /\ proc' = "running"

\* C6, as amended: when memdebug_realloc of a tracked non-null pointer
\* returns, num_allocs is what it was when the call took the lock, the
\* returned pointer has a record with the new size, and the old pointer has
\* no record unless the real realloc returned that same pointer.
C6_ReallocKeepsCountAndMovesRecord ==
    [][\A t \in Threads : (ReallocReturns(t) /\ loc[t].ptr # NULL) =>
          /\ num_allocs' = loc[t].before.count
          /\ \E r \in LiveRecords' : r.ptr = loc[t].newptr /\ r.size = loc[t].n
          /\ loc[t].newptr # loc[t].ptr
                => ~(\E r \in LiveRecords' : r.ptr = loc[t].ptr)]_vars

\* C6 as stated: the old pointer has no record afterwards, whatever the
\* real realloc returned.
C6_OldAddressNeverResolves ==
    [][\A t \in Threads : (ReallocReturns(t) /\ loc[t].ptr # NULL) =>
          /\ num_allocs' = loc[t].before.count
          /\ \E r \in LiveRecords' : r.ptr = loc[t].newptr /\ r.size = loc[t].n
          /\ ~(\E r \in LiveRecords' : r.ptr = loc[t].ptr)]_vars

\* a malloc and a realloc of the pointer it returned have both returned
C6_Witness ==
    /\ Quiescent
    /\ ~hist.misuse
    /\ hist.mallocs = 1 /\ hist.reallocs = 1 /\ hist.frees = 0
    /\ num_allocs = 1

\* C7: in both variants a memdebug_realloc(NULL, n) that returns has added
\* the one record {returned pointer, n, call site}, has raised num_allocs by
\* one, and has changed no other record.
C7_ReallocNullIsMalloc ==
    [][\A t \in Threads : (ReallocReturns(t) /\ loc[t].ptr = NULL) =>
          /\ num_allocs' = (loc[t].before.count + 1) % SizeMod
          /\ LiveRecords' = loc[t].before.records
                \cup {MemAlloc(loc[t].newptr, loc[t].n, loc[t].line)}]_vars

\* The records stored in the buckets, bucket by bucket.
RECURSIVE StoredSeq(_, _)
StoredSeq(map, order) ==
    IF order = <<>> THEN <<>>
    ELSE (IF map[Head(order)].alloc.ptr = NULL THEN <<>>
          ELSE <<map[Head(order)].alloc>>)
         \o map[Head(order)].next \o StoredSeq(map, Tail(order))

\* C8: hash variant.  No address is stored twice, be it in two buckets or
\* twice in one bucket (inline slot and chain).
C8_AddressesUnique ==
    impl = "hash" =>
        LET s == StoredSeq(allocs, BucketOrder)
        IN  \A i, j \in 1..Len(s) : i # j => s[i].ptr # s[j].ptr

\* three records, two of them in one bucket
C8_Witness ==
    /\ impl = "hash"
    /\ num_allocs = 3
    /\ Len(StoredSeq(allocs, BucketOrder)) = 3
    /\ \E b \in Buckets : allocs[b].next # <<>>

\* The steps that read or write the registry's storage or num_allocs.
AccessesRegistry(t) ==
    pc[t] \in {"m_add", "r_remove", "r_add", "f_remove", "ph_scan", "ph_summary",
               "r_find", "r_update", "f_find", "fa_remove", "ph_loop"}

\* C9: a thread about to read or write the registry holds alloc_mutex, so no
\* two threads are at such a step together.
C9_RegistryAccessUnderLock ==
    /\ \A t \in Threads : AccessesRegistry(t) => alloc_mutex = t
    /\ \A t, u \in Threads : (AccessesRegistry(t) /\ AccessesRegistry(u)) => t = u

\* C10: hash variant.  A print_heap that no other call overlaps lists each
\* address the application holds once and nothing else; the total of its
\* summary line is
\* the sum of the listed sizes and the item count is the number of listed
\* records.
C10_DumpIsExact ==
    \A t \in Threads :
        (/\ impl = "hash"
         /\ proc = "running"
         /\ pc[t] = "ph_summary"
         /\ ~loc[t].conc
         /\ ~loc[t].in_oom) =>
            /\ {r.ptr : r \in SeqToSet(loc[t].listed)} = owned
            /\ Len(loc[t].listed) = Cardinality(owned)
            /\ loc[t].total = SumSizes(loc[t].listed)
            /\ num_allocs = Len(loc[t].listed)

\* The addresses print_heap would list from the buckets as they stand.
ListedPtrs == {r.ptr : r \in SeqToSet(HeapListing(allocs, BucketOrder))}

\* C11: hash variant.  When memdebug_free of a non-null address returns, the
\* address has no record: print_heap would not list it and alloc_remove
\* would not find it (a second free is an unknown pointer).  An address
\* without a record gets one only by the alloc_add of a memdebug_malloc or
\* memdebug_realloc that got this address from the real allocator; and what
\* print_heap lists is what the buckets hold.
C11_FreedAddressIsGone ==
    [][impl = "hash" => \A a \in Addrs :
          /\ (\E t \in Threads :
                 pc[t] = "f_real" /\ loc[t].ptr = a /\ pc'[t] = "idle")
             => (/\ ~Tracked(a)'
                 /\ a \notin ListedPtrs'
                 /\ ~(alloc_remove(Map, a).found)')
          /\ (~Tracked(a) /\ Tracked(a)')
             => (\E t \in Threads :
                    /\ pc[t] \in {"m_add", "r_add"}
                    /\ loc[t].newptr = a
                    /\ a \in heap)
          /\ \A t \in Threads :
                (pc[t] = "ph_scan" /\ pc'[t] = "ph_summary")
                => {r.ptr : r \in SeqToSet(loc'[t].listed)} \cap Addrs
                      = {b \in Addrs : Tracked(b)}]_vars

\* malloc and free of the address have returned, and a print_heap after them
\* has listed nothing
C11_Witness ==
    \E t \in Threads :
        /\ impl = "hash"
        /\ pc[t] = "ph_summary"
        /\ ~loc[t].conc
        /\ hist.mallocs = 1 /\ hist.frees = 1 /\ ~hist.misuse
        /\ loc[t].listed = <<>>

\* C12: array variant.  memdebug_free(NULL) is an invalid free: its lookup
\* goes to mempanic with the registry as it was, and mempanic ends the
\* process with MEMPANIC_EXIT_STATUS; the call never reaches the real free or
\* alloc_remove.
C12_ArrayFreeNullPanics ==
    [][\A t \in Threads : (impl = "array" /\ loc[t].ptr = NULL) =>
          /\ (pc[t] = "f_find" /\ pc'[t] # pc[t])
             => (/\ pc'[t] = "mempanic"
                 /\ allocs' = allocs /\ num_allocs' = num_allocs)
          /\ pc'[t] \notin {"fa_real", "fa_remove"}
          /\ (pc[t] = "mempanic" /\ pc'[t] # pc[t])
             => (/\ proc' = "exited"
                 /\ exit_status' = MEMPANIC_EXIT_STATUS
                 /\ allocs' = allocs /\ num_allocs' = num_allocs)]_vars

\* C13: hash variant.  The alloc_remove(ptr) of a memdebug_free or
\* memdebug_realloc, for any pointer, NULL included: it finds (and counts
\* down num_allocs by one) exactly when a record with this address is
\* stored; when it finds nothing, buckets and num_allocs stay as they are;
\* and it raises no fault.
C13_RemoveReportsPresence ==
    [][\A t \in Threads :
          (/\ impl = "hash"
           /\ pc[t] \in {"f_remove", "r_remove"}
           /\ pc'[t] # pc[t])
          => LET r == alloc_remove(Map, loc[t].ptr)
             IN  /\ r.found = Tracked(loc[t].ptr)
                 /\ proc' = "running"
                 /\ ~Tracked(loc[t].ptr)
                       => (allocs' = allocs /\ num_allocs' = num_allocs)
                 /\ Tracked(loc[t].ptr)
                       => num_allocs' = (num_allocs + SizeMod - 1) % SizeMod]_vars

\* C14: the registry taken alone.  When alloc_remove(ptr) has found a real
\* record (in the inline slot, in the middle or at the end of the chain), the
\* records held afterwards are those held before without the one of ptr, each
\* with its address, size and line; print_heap's traversal reaches each of
\* them, and so would alloc_remove of its address.
C14_RemovalTouchesOnlyItsTarget ==
    [][(pc'[1] = "removed" /\ loc'[1].ptr # NULL) =>
          LET ptr  == loc'[1].ptr
              rest == {r \in LiveRecords : r.ptr # ptr}
          IN  /\ \E r \in LiveRecords : r.ptr = ptr
              /\ LiveRecords' = rest
              /\ SeqToSet(HeapListing(allocs, BucketOrder))' = rest
              /\ \A r \in rest : (alloc_remove(Map, r.ptr).found)']_vars

\* the middle one of three chain nodes has been removed; three records stay
C14_Witness ==
    /\ pc[1] = "removed"
    /\ Len(loc[1].listed) = 4
    /\ loc[1].listed[3].ptr = loc[1].ptr
    /\ Cardinality(LiveRecords) >= 3

\* Thread u is inside memdebug_realloc of a non-null address that had a
\* record when the call took the lock (or has one now, before the lock).
InReallocOfTracked(u) ==
    /\ loc[u].ptr # NULL
    /\ \/ pc[u] = "r_lock" /\ Tracked(loc[u].ptr)
       \/ /\ pc[u] \in {"r_remove", "r_find", "r_real", "r_add", "r_update", "oom",
                        "ph_lock", "ph_scan", "ph_loop", "ph_summary", "blocked"}
          /\ \E r \in loc[u].before.records : r.ptr = loc[u].ptr

\* The addresses under which the allocation u resizes can show: the old one,
\* and the one the real realloc returned.
ReallocAddrs(u) == {loc[u].ptr} \cup ({loc[u].newptr} \ {NULL})

\* The step that completes the listing of a print_heap.
EnumerationEnds(t) ==
    /\ pc[t] \in {"ph_scan", "ph_loop"}
    /\ pc'[t] = "ph_summary"

\* C15: both variants.  A print_heap listing completed by a thread while
\* another thread is inside memdebug_realloc of a tracked address shows that
\* allocation once, under its old or its new address: not zero times (the
\* state between alloc_remove and alloc_add) and not twice.
C15_ResizeIsAtomicToObservers ==
    [][\A t, u \in Threads :
          (t # u /\ EnumerationEnds(t) /\ InReallocOfTracked(u))
          => Cardinality({i \in 1..Len(loc'[t].listed) :
                             loc'[t].listed[i].ptr \in ReallocAddrs(u)}) = 1]_vars

\* Thread t is inside memdebug_free(a).
InFree(t, a) ==
    /\ loc[t].ptr = a
    /\ loc[t].n = 0
    /\ pc[t] \in {"f_lock", "f_remove", "f_find", "f_real", "fa_real", "fa_remove",
                  "mempanic", "exit"}

\* The lookup of memdebug_free has found the record: the call is on its way
\* to, or in, the real free.
PastLookup(t) == pc[t] \in {"f_real", "fa_real", "fa_remove"}

\* Both threads are inside memdebug_free of the non-null address a, which
\* has a record or had one when one of the two took the lock.
ConcurrentDoubleFree(t, u, a) ==
    /\ t # u
    /\ a # NULL
    /\ InFree(t, a) /\ InFree(u, a)
    /\ \/ Tracked(a)
       \/ \E w \in {t, u} : \E r \in loc[w].before.records : r.ptr = a

\* What holds of every step during a concurrent double free.
DoubleFreeIsDetected ==
    /\ \A t, u \in Threads, a \in Addrs : ConcurrentDoubleFree(t, u, a)' =>
          /\ ~(PastLookup(t)' /\ PastLookup(u)')
          /\ (pc'[t] = "exit" /\ proc' = "exited")
                => exit_status' = MEMPANIC_EXIT_STATUS
    /\ \A t, u \in Threads, a \in Addrs :
          (ConcurrentDoubleFree(t, u, a) /\ pc[t] \in {"f_remove", "f_find"}
             /\ pc'[t] # pc[t])
          => (/\ Tracked(a) => PastLookup(t)'
              /\ ~Tracked(a) => pc'[t] = "mempanic")
    /\ \A t \in Threads :
          (pc[t] \in {"f_real", "fa_real"} /\ pc'[t] # pc[t] /\ loc[t].ptr # NULL)
          => loc[t].ptr \in heap

\* C16, as amended: both variants.  While two threads are inside
\* memdebug_free of the same tracked address, the first lookup finds and
\* removes the record, the other lookup goes to mempanic
\* (MEMPANIC_EXIT_STATUS); never are both calls past their lookup, and the
\* real free is only ever given an address the real allocator holds.
C16_ConcurrentDoubleFreeIsDetected ==
    [][DoubleFreeIsDetected]_vars

\* C16 as stated: in addition, in every interleaving the call that removed
\* the record has invoked the real free by the time the other call's fault
\* has ended the process.
C16_WinnerAlwaysFrees ==
    [][/\ DoubleFreeIsDetected
       /\ \A t, u \in Threads, a \in Addrs :
             (ConcurrentDoubleFree(t, u, a)' /\ pc'[u] = "exit")
             => a \notin heap']_vars

\* one call is past its lookup, the other has raised the fault
C16_Witness ==
    \E t, u \in Threads, a \in Addrs :
        /\ ConcurrentDoubleFree(t, u, a)
        /\ PastLookup(t)
        /\ pc[u] = "mempanic"

\* C17: both variants.  A step that has to ask the real allocator for
\* registry storage (a chain node in alloc_add; the record array in
\* alloc_push, with the push itself inside the array) never ends in a fault
\* from writing through a null result: if the storage is refused, the thread
\* goes to OOM with the registry as it was.
C17_RegistryOomIsFatalFault ==
    [][\A t \in Threads :
          (/\ pc'[t] # pc[t]
           /\ \/ /\ impl = "hash"
                 /\ pc[t] \in {"m_add", "r_add"}
                 /\ alloc_add_needs_node(Map, loc[t].newptr)
              \/ /\ impl = "array"
                 /\ pc[t] = "m_add"
                 /\ alloc_push_needs_storage(num_allocs, allocs_cap)
                 /\ ~alloc_push_out_of_bounds(num_allocs, allocs_cap))
          => (/\ proc' # "crashed"
              /\ pc'[t] = "oom" => (allocs' = allocs /\ num_allocs' = num_allocs))]_vars

\* C18: the registry taken alone.  What print_heap lists from a bucket is
\* the bucket's records in the order of their insertion: alloc_add puts the
\* new record behind those listed before, alloc_remove takes its target out
\* and leaves the others in their order (also when the first chain node moves
\* into the inline slot), and neither touches the listing of another bucket.
C18_BucketKeepsInsertionOrder ==
    [][/\ (pc'[1] = "added" /\ proc' = "running") =>
             LET b == HashTable[loc'[1].newptr]
             IN  /\ BucketListing(allocs'[b])
                       = Append(BucketListing(allocs[b]),
                                MemAlloc(loc'[1].newptr, loc'[1].n, loc'[1].line))
                 /\ \A c \in Buckets \ {b} :
                       BucketListing(allocs'[c]) = BucketListing(allocs[c])
       /\ (pc'[1] \in {"removed", "absent"}) =>
             LET b == HashTable[loc'[1].ptr]
             IN  /\ BucketListing(allocs'[b])
                       = SelectSeq(BucketListing(allocs[b]),
                                   LAMBDA r : r.ptr # loc'[1].ptr)
                 /\ \A c \in Buckets \ {b} :
                       BucketListing(allocs'[c]) = BucketListing(allocs[c])]_vars

\* the inline record of a bucket with two chain nodes has been removed
C18_Witness ==
    /\ pc[1] = "removed"
    /\ Len(loc[1].listed) = 3
    /\ loc[1].listed[1].ptr = loc[1].ptr
    /\ Len(BucketListing(allocs[HashTable[loc[1].ptr]])) = 2

\* C19: hash variant, every reachable state.  A bucket with an empty inline
\* slot has no chain; no chain node holds NULL; every stored record lies in
\* bucket ptr_hash of its address; so print_heap's traversal reaches every
\* stored record and alloc_remove finds every stored address.
C19_BucketStructure ==
    impl = "hash" =>
        /\ \A b \in Buckets :
              /\ allocs[b].alloc.ptr = NULL => allocs[b].next = <<>>
              /\ \A i \in 1..Len(allocs[b].next) : allocs[b].next[i].ptr # NULL
              /\ \A r \in BucketRecords(allocs[b]) : ptr_hash(r.ptr) = b
        /\ SeqToSet(HeapListing(allocs, BucketOrder))
              = SeqToSet(StoredSeq(allocs, BucketOrder))
        /\ \A r \in LiveRecords : alloc_remove(Map, r.ptr).found

\* memdebug_free has taken one of two records out of a bucket
C19_Witness ==
    \E t \in Threads :
        /\ impl = "hash"
        /\ pc[t] = "f_real"
        /\ Cardinality({r \in loc[t].before.records :
                           ptr_hash(r.ptr) = ptr_hash(loc[t].ptr)}) = 2
        /\ Cardinality(BucketRecords(allocs[ptr_hash(loc[t].ptr)])) = 1

\* C20: both variants.  Whenever a thread can observe the registry, every
\* address with a record is held by the real allocator: when the lock is
\* free (any thread may take it and look), when print_heap of the hash
\* variant is about to traverse, and when print_heap of the array variant,
\* which takes no lock, is about to read a record.
C20_TrackedIsAllocated ==
    proc = "running" =>
        /\ alloc_mutex = 0 => \A r \in LiveRecords : r.ptr \in heap
        /\ \A t \in Threads :
              (impl = "hash" /\ pc[t] = "ph_scan")
                 => \A r \in LiveRecords : r.ptr \in heap
        /\ \A t \in Threads :
              (/\ impl = "array"
               /\ pc[t] = "ph_loop"
               /\ loc[t].i < num_allocs
               /\ loc[t].i < Len(allocs))
                 => allocs[loc[t].i + 1].ptr \in heap

\* The step of thread t prints: the log line of memdebug_malloc,
\* memdebug_realloc or memdebug_free, the MEMORY PANIC message of mempanic,
\* or the Out of memory message of OOM.
Prints(t) ==
    \/ pc[t] = "idle" /\ pc'[t] = "m_lock"
    \/ pc[t] = "r_real" /\ pc'[t] = "r_add"
    \/ pc[t] = "f_real" /\ pc'[t] = "idle"
    \/ pc[t] = "mempanic" /\ pc'[t] = "exit"
    \/ pc[t] = "oom" /\ pc'[t] # "oom"

\* C21: hash variant.  A thread that prints a log line of memdebug_malloc,
\* memdebug_realloc or memdebug_free, or the message of mempanic or OOM, does
\* not hold alloc_mutex while it prints.
C21_NoOutputUnderLock ==
    [][\A t \in Threads : (impl = "hash" /\ Prints(t)) => alloc_mutex # t]_vars

====
